---- MODULE Spec2Model ----
(***************************************************************************)
(* Model of src/app.py: the Streamlit "Discovery Intelligence Report       *)
(* Generator".  Three parts of the program are modelled:                   *)
(*   - the payload assembler (clean_text, build_payload_from_state),       *)
(*   - the session handlers (run_generation_from_output, clear_report),    *)
(*   - the Markdown to document converter (markdown_to_docx).              *)
(* Text is a sequence of one-character strings, so that strip, startswith, *)
(* replace, slicing and splitlines are computed as Python computes them.   *)
(* meeting_type, project_name and include_open_questions are copied into   *)
(* the payload and read by no handler; they are not part of the state.     *)
(***************************************************************************)
EXTENDS Integers, Sequences, FiniteSets

VARIABLES
    client_name,     \* st.session_state["client_name"]
    transcript,      \* st.session_state["transcript"]
    structured,      \* the structured text areas, by position
    include_docx,    \* st.session_state["include_docx"]
    api_key,         \* TRUE iff OPENAI_API_KEY is configured
    report_md,       \* st.session_state["report_md"]
    docx_bytes,      \* st.session_state["docx_bytes"]
    last_error,      \* st.session_state["last_error"]
    attempt,         \* history of the last run of a handler
    md_text,         \* argument of a direct call of markdown_to_docx
    doc              \* result of that call

vars == <<client_name, transcript, structured, include_docx, api_key,
          report_md, docx_bytes, last_error, attempt, md_text, doc>>

widgets == <<client_name, transcript, structured, include_docx>>
session == <<report_md, docx_bytes, last_error>>
convVars == <<md_text, doc>>

----------------------------------------------------------------------------
(* Bounds *)

NStructured == 2     \* number of structured text areas that are modelled
MaxFieldLen == 3     \* longest raw client name drawn for the assembler
MaxTextLen == 6      \* longest Markdown text drawn for the converter

----------------------------------------------------------------------------
(* Text *)

\* an optional value is a sequence of at most one element
None == <<>>
Some(x) == <<x>>

Whitespace == {" ", "\t", "\n"}

RECURSIVE lstrip(_)
lstrip(s) ==
    IF s # <<>> /\ Head(s) \in Whitespace THEN lstrip(Tail(s)) ELSE s

RECURSIVE rstrip(_)
rstrip(s) ==
    IF s # <<>> /\ s[Len(s)] \in Whitespace
    THEN rstrip(SubSeq(s, 1, Len(s) - 1))
    ELSE s

strip(s) == lstrip(rstrip(s))

startswith(s, p) == Len(s) >= Len(p) /\ SubSeq(s, 1, Len(p)) = p

slice_from(s, n) == SubSeq(s, n + 1, Len(s))

\* str.replace(old, ""): every non-overlapping occurrence, left to right
RECURSIVE replace(_, _)
replace(s, old) ==
    IF Len(s) < Len(old) THEN s
    ELSE IF startswith(s, old) THEN replace(slice_from(s, Len(old)), old)
    ELSE <<Head(s)>> \o replace(Tail(s), old)

FirstNewline(s) ==
    IF \E i \in 1..Len(s) : s[i] = "\n"
    THEN CHOOSE i \in 1..Len(s) : s[i] = "\n" /\ \A j \in 1..(i - 1) : s[j] # "\n"
    ELSE 0

\* md_text.split("\n") in place of splitlines(): a line for the empty text
\* and one after a final newline
RECURSIVE split_newline(_)
split_newline(s) ==
    LET i == FirstNewline(s) IN
    IF i = 0 THEN <<s>>
    ELSE <<SubSeq(s, 1, i - 1)>> \o split_newline(slice_from(s, i))

\* str.splitlines(): no line for the empty text, none after a final newline
RECURSIVE splitlines(_)
splitlines(s) ==
    IF s = <<>> THEN <<>>
    ELSE LET i == FirstNewline(s) IN
         IF i = 0 THEN <<s>>
         ELSE <<SubSeq(s, 1, i - 1)>> \o splitlines(slice_from(s, i))

RECURSIVE TextsUpTo(_, _)
TextsUpTo(alphabet, n) ==
    IF n = 0 THEN {<<>>}
    ELSE LET shorter == TextsUpTo(alphabet, n - 1) IN
         shorter \cup {Append(t, c) : t \in shorter, c \in alphabet}

----------------------------------------------------------------------------
(* Document converter: markdown_to_docx *)

\* doc.add_heading(text, level), doc.add_paragraph(text, style), as the
\* block they append to the document body
Heading(text, level) == [kind |-> "heading", level |-> level, text |-> text]
Bullet(text) == [kind |-> "bullet", level |-> 0, text |-> text]
Paragraph(text) == [kind |-> "paragraph", level |-> 0, text |-> text]

H1 == <<"#", " ">>
H2 == <<"#", "#", " ">>
H3 == <<"#", "#", "#", " ">>
Dash == <<"-", " ">>
Star == <<"*", " ">>

\* add_line with the bullet test on the line as it is, not left-stripped
add_line_unstripped(raw) ==
    LET line == rstrip(raw) IN
    IF strip(line) = <<>> THEN Paragraph(<<>>)
    ELSE IF startswith(line, H3) THEN Heading(replace(line, H3), 3)
    ELSE IF startswith(line, H2) THEN Heading(replace(line, H2), 2)
    ELSE IF startswith(line, H1) THEN Heading(replace(line, H1), 1)
    ELSE IF startswith(line, Dash) \/ startswith(line, Star)
         THEN Bullet(slice_from(line, 2))
    ELSE Paragraph(line)

\* the body of the loop over md_text.splitlines(), for one raw line
add_line(raw) ==
    LET line == rstrip(raw) IN
    IF strip(line) = <<>> THEN Paragraph(<<>>)
    ELSE IF startswith(line, H3) THEN Heading(replace(line, H3), 3)
    ELSE IF startswith(line, H2) THEN Heading(replace(line, H2), 2)
    ELSE IF startswith(line, H1) THEN Heading(replace(line, H1), 1)
    ELSE IF startswith(lstrip(line), Dash) \/ startswith(lstrip(line), Star)
         THEN Bullet(slice_from(lstrip(line), 2))
    ELSE Paragraph(line)

\* the document body that doc.save() serialises, block by block
markdown_to_docx(md) ==
    LET lines == splitlines(md) IN
    [i \in 1..Len(lines) |-> add_line(lines[i])]

----------------------------------------------------------------------------
(* Payload assembler: clean_text, build_payload_from_state *)

\* st.session_state.get(key, default): a widget value is None while its key
\* is absent from the session state and Some(text) once it is set
get(value, default) == IF value = None THEN default ELSE value[1]

\* clean_text with lstrip() in place of strip()
clean_text_lstrip(x) == lstrip(x)

\* (x or "").strip(), for the texts that get() hands over
clean_text(x) == strip(x)

Client == <<"C", "l", "i", "e", "n", "t">>

build_payload_from_state ==
    [client_name |->
        IF clean_text(get(client_name, <<>>)) = <<>> THEN Client
        ELSE clean_text(get(client_name, <<>>)),
     transcript_or_notes |-> clean_text(get(transcript, <<>>)),
     structured_inputs |->
        [i \in 1..NStructured |-> clean_text(get(structured[i], <<>>))]]

\* the gate with "or" in place of "and"
incomplete_or(payload) ==
    \/ payload.transcript_or_notes = <<>>
    \/ \A i \in 1..NStructured : payload.structured_inputs[i] = <<>>

\* the gate: not transcript_or_notes and all(not v for v in structured_inputs)
incomplete(payload) ==
    /\ payload.transcript_or_notes = <<>>
    /\ \A i \in 1..NStructured : payload.structured_inputs[i] = <<>>

----------------------------------------------------------------------------
(* Session handlers: run_generation_from_output, clear_report *)

ValidationMessage ==
    <<"P", "l", "e", "a", "s", "e", " ", "p", "a", "s", "t", "e", " ", "a",
      "t", " ", "l", "e", "a", "s", "t", " ", "a", " ", "t", "r", "a", "n",
      "s", "c", "r", "i", "p", "t", "/", "n", "o", "t", "e", "s", " ", "O",
      "R", " ", "f", "i", "l", "l", " ", "a", "t", " ", "l", "e", "a", "s",
      "t", " ", "o", "n", "e", " ", "s", "t", "r", "u", "c", "t", "u", "r",
      "e", "d", " ", "f", "i", "e", "l", "d", ".">>

GenerationFailedPrefix ==
    <<"G", "e", "n", "e", "r", "a", "t", "i", "o", "n", " ", "f", "a", "i",
      "l", "e", "d", ":", " ">>

\* f"Generation failed: {e}"
GenerationFailed(e) == GenerationFailedPrefix \o e

\* a character that XML text cannot hold; python-docx raises on it
Ctrl == "^@"

\* whether add_paragraph / add_heading raises ValueError on this Markdown
docx_raises(md) ==
    \E i \in 1..Len(markdown_to_docx(md)) :
        \E j \in 1..Len(markdown_to_docx(md)[i].text) :
            markdown_to_docx(md)[i].text[j] = Ctrl

\* what the session held when the handler was entered, and what the run did
Ran(outcome, calls, payload, error) ==
    Some([outcome |-> outcome,
          calls |-> calls,
          payload |-> payload,
          error |-> error,
          before_report |-> report_md,
          before_docx |-> docx_bytes,
          before_error |-> last_error])

\* Rejected without lines 176-177
Rejected_keeps_report ==
    /\ incomplete(build_payload_from_state)
    /\ last_error' = ValidationMessage
    /\ UNCHANGED <<report_md, docx_bytes>>
    /\ attempt' = Ran("rejected", 0, build_payload_from_state, <<>>)

\* lines 172-178: the gate refuses the payload
Rejected ==
    /\ incomplete(build_payload_from_state)
    /\ last_error' = ValidationMessage
    /\ report_md' = <<>>
    /\ docx_bytes' = None
    /\ attempt' = Ran("rejected", 0, build_payload_from_state, <<>>)

\* lines 180-182, 78, 12-15: get_client finds no key; st.stop() raises a
\* StopException, which is no Exception and passes the handler's except
Stopped ==
    /\ ~incomplete(build_payload_from_state)
    /\ ~api_key
    /\ last_error' = <<>>
    /\ UNCHANGED <<report_md, docx_bytes>>
    /\ attempt' = Ran("stopped", 0, build_payload_from_state, <<>>)

\* Failed without lines 192-193
Failed_keeps_report(e) ==
    /\ ~incomplete(build_payload_from_state)
    /\ api_key
    /\ last_error' = GenerationFailed(e)
    /\ UNCHANGED <<report_md, docx_bytes>>
    /\ attempt' = Ran("failed", 1, build_payload_from_state, e)

\* lines 180-182, 83-90, 190-193: client.responses.create raises e
Failed(e) ==
    /\ ~incomplete(build_payload_from_state)
    /\ api_key
    /\ last_error' = GenerationFailed(e)
    /\ report_md' = <<>>
    /\ docx_bytes' = None
    /\ attempt' = Ran("failed", 1, build_payload_from_state, e)

\* lines 180-188: the call returns the text r, and the conversion, when it
\* is asked for, succeeds
Generated(r) ==
    /\ ~incomplete(build_payload_from_state)
    /\ api_key
    /\ get(include_docx, TRUE) => ~docx_raises(r)
    /\ last_error' = <<>>
    /\ report_md' = r
    /\ docx_bytes' = IF get(include_docx, TRUE)
                     THEN Some(markdown_to_docx(r))
                     ELSE None
    /\ attempt' = Ran("generated", 1, build_payload_from_state, <<>>)

\* ConvertFailed without line 192: the report set at line 183 stays
ConvertFailed_keeps_report(r, e) ==
    /\ ~incomplete(build_payload_from_state)
    /\ api_key
    /\ get(include_docx, TRUE)
    /\ docx_raises(r)
    /\ last_error' = GenerationFailed(e)
    /\ report_md' = r
    /\ docx_bytes' = None
    /\ attempt' = Ran("convert_failed", 1, build_payload_from_state, e)

\* lines 180-186, 190-193: the call returns r, report_md is set, and
\* markdown_to_docx raises e
ConvertFailed(r, e) ==
    /\ ~incomplete(build_payload_from_state)
    /\ api_key
    /\ get(include_docx, TRUE)
    /\ docx_raises(r)
    /\ last_error' = GenerationFailed(e)
    /\ report_md' = <<>>
    /\ docx_bytes' = None
    /\ attempt' = Ran("convert_failed", 1, build_payload_from_state, e)

ModelOutputs ==
    { <<>>,
      <<"#", " ", "T", "\n", "-", " ", "p">>,
      <<"x", " ", "#", " ", "y">>,
      <<"a", Ctrl>> }

ErrorTexts == { <<>>, <<"q", "u", "o", "t", "a">> }

XmlError == <<"X", "M", "L">>

run_generation_from_output ==
    /\ \/ Rejected
       \/ Stopped
       \/ \E e \in ErrorTexts : Failed(e)
       \/ \E r \in ModelOutputs : Generated(r)
       \/ \E r \in ModelOutputs : ConvertFailed(r, XmlError)
    /\ UNCHANGED <<widgets, api_key, convVars>>

clear_report ==
    /\ report_md' = <<>>
    /\ docx_bytes' = None
    /\ last_error' = <<>>
    /\ attempt' = None
    /\ UNCHANGED <<widgets, api_key, convVars>>

----------------------------------------------------------------------------
(* The widgets and the environment *)

FieldValues == { <<>>, <<" ">>, <<"a">>, <<" ", "a", "\t">> }

EditClientName(v) ==
    /\ client_name' = Some(v)
    /\ attempt' = None
    /\ UNCHANGED <<transcript, structured, include_docx, api_key, session, convVars>>

EditTranscript(v) ==
    /\ transcript' = Some(v)
    /\ attempt' = None
    /\ UNCHANGED <<client_name, structured, include_docx, api_key, session, convVars>>

EditStructured(i, v) ==
    /\ structured' = [structured EXCEPT ![i] = Some(v)]
    /\ attempt' = None
    /\ UNCHANGED <<client_name, transcript, include_docx, api_key, session, convVars>>

ToggleIncludeDocx ==
    /\ include_docx' = Some(~include_docx[1])
    /\ attempt' = None
    /\ UNCHANGED <<client_name, transcript, structured, api_key, session, convVars>>

\* OPENAI_API_KEY is added to, or removed from, the secrets or the environment
ConfigureKey ==
    /\ api_key' = ~api_key
    /\ attempt' = None
    /\ UNCHANGED <<widgets, session, convVars>>

\* the session after the first run of the script: lines 127-129 and the
\* widgets' default values
Init ==
    /\ client_name = Some(<<>>)
    /\ transcript = Some(<<>>)
    /\ structured = [i \in 1..NStructured |-> Some(<<>>)]
    /\ include_docx = Some(TRUE)
    /\ api_key \in BOOLEAN
    /\ report_md = <<>>
    /\ docx_bytes = None
    /\ last_error = <<>>
    /\ attempt = None
    /\ md_text = <<>>
    /\ doc = None

Next ==
    \/ \E v \in FieldValues : EditClientName(v)
    \/ \E v \in FieldValues : EditTranscript(v)
    \/ \E i \in 1..NStructured : \E v \in FieldValues : EditStructured(i, v)
    \/ ToggleIncludeDocx
    \/ ConfigureKey
    \/ run_generation_from_output
    \/ clear_report

Spec == Init /\ [][Next]_vars

----------------------------------------------------------------------------
(* The converter, applied to every text up to a length *)

MdAlphabet == {"#", " ", "-", "*", "a", "\n"}

InitConv ==
    /\ md_text \in TextsUpTo(MdAlphabet, MaxTextLen)
    /\ doc = None
    /\ client_name = None
    /\ transcript = None
    /\ structured = [i \in 1..NStructured |-> None]
    /\ include_docx = None
    /\ api_key = TRUE
    /\ report_md = <<>>
    /\ docx_bytes = None
    /\ last_error = <<>>
    /\ attempt = None

Convert ==
    /\ doc = None
    /\ doc' = Some(markdown_to_docx(md_text))
    /\ UNCHANGED <<md_text, widgets, api_key, session, attempt>>

NextConv == Convert

SpecConv == InitConv /\ [][NextConv]_vars

----------------------------------------------------------------------------
(* The assembler, applied to every client name up to a length, set or not *)

NameAlphabet == {" ", "\t", "a"}

Optional(S) == {None} \cup {Some(x) : x \in S}

InitAssemble ==
    /\ client_name \in Optional(TextsUpTo(NameAlphabet, MaxFieldLen))
    /\ transcript \in Optional(FieldValues)
    /\ structured \in [1..NStructured -> Optional(FieldValues)]
    /\ include_docx = None
    /\ api_key = TRUE
    /\ report_md = <<>>
    /\ docx_bytes = None
    /\ last_error = <<>>
    /\ attempt = None
    /\ md_text = <<>>
    /\ doc = None

Assemble ==
    /\ attempt = None
    /\ attempt' = Ran("assembled", 0, build_payload_from_state, <<>>)
    /\ UNCHANGED <<widgets, api_key, session, convVars>>

NextAssemble == Assemble

SpecAssemble == InitAssemble /\ [][NextAssemble]_vars

----------------------------------------------------------------------------
(* Properties of the assembler and of the handlers, stated over the raw    *)
(* widget values and the session state.  The widgets and the key are not   *)
(* changed by a handler, and attempt is reset by every other action, so    *)
(* while attempt is set they are the ones the handler ran with.            *)

AllWhitespace(s) == \A j \in 1..Len(s) : s[j] \in Whitespace

\* how many whitespace characters s begins with, and ends with
LeadingWhitespace(s) ==
    CHOOSE k \in 0..Len(s) :
        /\ \A j \in 1..k : s[j] \in Whitespace
        /\ k = Len(s) \/ s[k + 1] \notin Whitespace

TrailingWhitespace(s) ==
    CHOOSE k \in 0..Len(s) :
        /\ \A j \in (Len(s) - k + 1)..Len(s) : s[j] \in Whitespace
        /\ k = Len(s) \/ s[Len(s) - k] \notin Whitespace

TrailingStripped(s) == SubSeq(s, 1, Len(s) - TrailingWhitespace(s))

Contains(s, e) ==
    \E i \in 1..(Len(s) - Len(e) + 1) : SubSeq(s, i, i + Len(e) - 1) = e

RawTranscript == get(transcript, <<>>)
RawStructured(i) == get(structured[i], <<>>)

InputEmpty ==
    /\ AllWhitespace(RawTranscript)
    /\ \A i \in 1..NStructured : AllWhitespace(RawStructured(i))

NonEmptyStructured == {i \in 1..NStructured : ~AllWhitespace(RawStructured(i))}

HeldReport == attempt[1].before_report # <<>> /\ attempt[1].before_docx # None

\* C1: a generation attempt ends with the validation message, and without
\* the external call, exactly when the transcript and every structured
\* field are empty or whitespace-only; any other attempt passes the gate
\* and, the key being configured, issues the external call.
C1_GateExactness ==
    attempt # None =>
        /\ attempt[1].outcome = "rejected" <=> InputEmpty
        /\ last_error = ValidationMessage <=> InputEmpty
        /\ InputEmpty => attempt[1].calls = 0
        /\ (~InputEmpty /\ api_key) => attempt[1].calls = 1

C1_Witness ==
    /\ attempt # None
    /\ AllWhitespace(RawTranscript) /\ RawTranscript # <<>>
    /\ Cardinality(NonEmptyStructured) = 1
    /\ attempt[1].outcome = "generated"
    /\ attempt[1].calls = 1

\* C2 as claimed: a rejected attempt leaves report_md and docx_bytes as
\* they were before it.
C2_RejectionLeavesReport ==
    (attempt # None /\ InputEmpty) =>
        /\ report_md = attempt[1].before_report
        /\ docx_bytes = attempt[1].before_docx

\* C2 as amended: a rejected attempt resets report_md to empty and
\* docx_bytes to None, whatever they held before it.
C2_RejectionClearsReport ==
    (attempt # None /\ InputEmpty) =>
        /\ report_md = <<>>
        /\ docx_bytes = None

C2_Witness ==
    /\ attempt # None
    /\ InputEmpty
    /\ attempt[1].outcome = "rejected"
    /\ HeldReport
    /\ report_md = <<>>

\* C3: when the external call raises, last_error is a non-empty text that
\* embeds the error's text, report_md is empty and docx_bytes is None,
\* whatever they held before, and the call was issued once.
C3_FailureResets ==
    (attempt # None /\ attempt[1].outcome = "failed") =>
        /\ last_error # <<>>
        /\ Contains(last_error, attempt[1].error)
        /\ report_md = <<>>
        /\ docx_bytes = None
        /\ attempt[1].calls = 1

C3_Witness ==
    /\ attempt # None
    /\ attempt[1].outcome = "failed"
    /\ attempt[1].error # <<>>
    /\ HeldReport
    /\ docx_bytes = None

\* C4: with no key configured, an attempt whose input passes the gate
\* issues no external call and leaves report_md, docx_bytes and
\* last_error as they were before it.
C4_MissingKeyWritesNothing ==
    (attempt # None /\ ~InputEmpty /\ ~api_key) =>
        /\ attempt[1].calls = 0
        /\ report_md = attempt[1].before_report
        /\ docx_bytes = attempt[1].before_docx
        /\ last_error = attempt[1].before_error

\* C8: the assembled client_name is never empty: it is "Client" when the
\* raw field is absent, empty or whitespace-only, and otherwise the raw
\* value without its leading and trailing whitespace.
C8_ClientNameDefault ==
    attempt # None =>
        LET raw == get(client_name, <<>>)
            name == attempt[1].payload.client_name
        IN  /\ name # <<>>
            /\ AllWhitespace(raw) => name = Client
            /\ ~AllWhitespace(raw) =>
                   name = SubSeq(raw, LeadingWhitespace(raw) + 1,
                                 Len(raw) - TrailingWhitespace(raw))

C8_Witness ==
    /\ attempt # None
    /\ client_name = Some(<<" ", "a", "\t">>)
    /\ attempt[1].payload.client_name = <<"a">>

\* C9: whenever last_error is non-empty, report_md is empty and docx_bytes
\* is None.
C9_NoReportWithError ==
    last_error # <<>> => (report_md = <<>> /\ docx_bytes = None)

C9_Witness ==
    /\ attempt # None
    /\ attempt[1].outcome = "convert_failed"
    /\ HeldReport
    /\ last_error # <<>>

\* C10: whenever docx_bytes is not None, report_md is non-empty and
\* docx_bytes is the conversion of the report_md now held.
C10_DocxOfHeldReport ==
    docx_bytes # None =>
        /\ report_md # <<>>
        /\ docx_bytes = Some(markdown_to_docx(report_md))

----------------------------------------------------------------------------
(* Properties of the converter, stated over the text and not over the      *)
(* operators that compute the conversion.                                  *)

Newlines(md) == {j \in 1..Len(md) : md[j] = "\n"}

\* the position just past each line of md
LineEnds(md) ==
    Newlines(md) \cup
        (IF md # <<>> /\ md[Len(md)] # "\n" THEN {Len(md) + 1} ELSE {})

LineIndex(md, e) == Cardinality({x \in LineEnds(md) : x <= e})

LineStart(md, e) ==
    LET before == {j \in Newlines(md) : j < e} IN
    IF before = {} THEN 1
    ELSE 1 + (CHOOSE j \in before : \A k \in before : k <= j)

RawLine(md, e) == SubSeq(md, LineStart(md, e), e - 1)

\* how many '#' characters s begins with
LeadingHashes(s) ==
    CHOOSE k \in 0..Len(s) :
        /\ \A j \in 1..k : s[j] = "#"
        /\ k = Len(s) \/ s[k + 1] # "#"

\* the block the converter emitted for the line that ends at e
Block(e) == doc[1][LineIndex(md_text, e)]

HeadingLine(line) ==
    LET k == LeadingHashes(line) IN
    k \in 1..3 /\ Len(line) > k /\ line[k + 1] = " "

\* C5: every non-blank line that starts with one, two or three '#' and a
\* space becomes a heading of that level whose text is the line with only
\* that leading prefix removed; a line that starts with four or more '#',
\* or with '#' and no space after them, becomes a plain paragraph holding
\* the line itself.
C5_HeadingPrefixOnly ==
    doc # None =>
        \A e \in LineEnds(md_text) :
            LET line == TrailingStripped(RawLine(md_text, e))
                k == LeadingHashes(line)
            IN  (line # <<>> /\ k >= 1) =>
                    IF HeadingLine(line)
                    THEN Block(e) = Heading(SubSeq(line, k + 2, Len(line)), k)
                    ELSE Block(e) = Paragraph(line)

\* C6: a non-blank, non-heading line becomes a bullet exactly when, left-
\* stripped, it starts with "- " or "* ", and the bullet text is what follows
\* these two characters; any other such line becomes a plain paragraph
\* holding the trailing-stripped line, leading whitespace included.
C6_BulletExactness ==
    doc # None =>
        \A e \in LineEnds(md_text) :
            LET line == TrailingStripped(RawLine(md_text, e))
                w == LeadingWhitespace(line)
                marked == /\ Len(line) >= w + 2
                          /\ line[w + 1] \in {"-", "*"}
                          /\ line[w + 2] = " "
            IN  (line # <<>> /\ ~HeadingLine(line)) =>
                    /\ Block(e).kind = "bullet" <=> marked
                    /\ marked => Block(e) = Bullet(SubSeq(line, w + 3, Len(line)))
                    /\ ~marked => Block(e) = Paragraph(line)

C6_Witness ==
    /\ md_text = <<" ", "*", " ", "a", "-">>
    /\ doc = Some(<<Bullet(<<"a", "-">>)>>)

\* C7 as claimed: every whitespace-only line becomes exactly one spacer
\* paragraph, and converting the empty text yields exactly one spacer.
C7_EmptyTextOneSpacer ==
    doc # None =>
        /\ \A e \in LineEnds(md_text) :
               AllWhitespace(RawLine(md_text, e)) => Block(e) = Paragraph(<<>>)
        /\ md_text = <<>> => doc[1] = <<Paragraph(<<>>)>>

\* C7 as amended: the converter emits one block per line of the text; the
\* block of a whitespace-only line (the empty line included) is a spacer
\* paragraph; the empty text has no line and yields no block at all.
C7_SpacerPerBlankLine ==
    doc # None =>
        /\ Len(doc[1]) = Cardinality(LineEnds(md_text))
        /\ \A e \in LineEnds(md_text) :
               AllWhitespace(RawLine(md_text, e)) => Block(e) = Paragraph(<<>>)
        /\ md_text = <<>> => doc[1] = <<>>

C7_Witness ==
    /\ md_text = <<" ", "\n", "\n", "a">>
    /\ doc = Some(<<Paragraph(<<>>), Paragraph(<<>>), Paragraph(<<"a">>)>>)

====
